---- MODULE Spec2Model ----
(***************************************************************************)
(* Model of the dxid-l0 ledger core: the sparse Merkle tree of dxid-smt,   *)
(* the account State of dxid-runtime and the block cycle of Chain.         *)
(*                                                                         *)
(* Byte strings are sequences of integers.  A BLAKE3 digest is modelled    *)
(* as the collision-free symbolic term of its preimage, delimited by the   *)
(* markers HOpen/HClose so that a digest embedded in a longer preimage     *)
(* keeps its boundaries (the code's fields have fixed widths).  A 32-byte  *)
(* key is the sequence of its four 8-byte words <<w0, w1, w2, w3>>.        *)
(***************************************************************************)
EXTENDS Integers, Sequences, FiniteSets, TLC

(* ------------------------------ bounds --------------------------------- *)

\* number of low tree levels addressed by key_index (64 in the code)
IdxBits == 2
\* number of levels above the index width (256 - 64 in the code)
UpperLevels == 1
\* width of the model's stand-in for u128
U128Bits == 20
\* stop producing blocks at this height
MaxHeight == 2
\* total number of files ever written to the mempool directory
MaxSubmits == 2
\* largest value of the wall clock
MaxTime == 1
\* number of updates of the stand-alone tree
MaxSmtOps == 3
\* number of consecutive calls of apply_tx on its own
MaxApplyCalls == 2
\* number of cycles of the node's production loop
MaxCycles == 2
\* largest height at which Storage is called
MaxStorageHeight == 6
\* number of calls of index_transaction
MaxIndexCalls == 2
\* number of times the node is started again
MaxRestarts == 1
\* number of hexadecimal digits of a checkpoint file's name (16 in the code)
HexWidth == 2

(* ------------------------------ hashing -------------------------------- *)

HOpen == 0 - 1
HClose == 0 - 2

\* dxid-smt h(): BLAKE3 of a byte string
h(bytes) == <<HOpen>> \o bytes \o <<HClose>>

\* dxid-smt h2(): BLAKE3 of a || b, no domain tag
h2(a, b) == h(a \o b)

RECURSIVE zero_hashes(_)
zero_hashes(i) == IF i = 0 THEN h(<<0>>) ELSE h2(zero_hashes(i - 1), zero_hashes(i - 1))

\* number of levels of the tree (256 in the code)
TreeDepth == IdxBits + UpperLevels

RECURSIVE Pow2(_)
Pow2(n) == IF n = 0 THEN 1 ELSE 2 * Pow2(n - 1)

\* Option<H256>: None is the empty byte string
None == <<>>

\* key_index: the last 8 bytes of the key, read big-endian
key_index(key) == key[4]

\* leaf hash = H(0x00 || key || value)
LeafHash(key, value) == h(<<0>> \o key \o value)

(* ------------------------- SparseMerkleTree ---------------------------- *)

\* iteration of the HashMap `store`: of the keys sharing an index, the one
\* iterated last (win[idx]) is the one whose leaf stays in the level map
OccupiedIdx(store) == {key_index(k) : k \in DOMAIN store}

Leaves(store, win) == [i \in OccupiedIdx(store) |-> LeafHash(win[i], store[win[i]])]

\* one iteration of the level loop: the map of parents of `cur`
LevelUp(cur, level) ==
    [j \in {i \div 2 : i \in DOMAIN cur} |->
        LET left == IF 2 * j \in DOMAIN cur THEN cur[2 * j] ELSE zero_hashes(level)
            right == IF 2 * j + 1 \in DOMAIN cur THEN cur[2 * j + 1] ELSE zero_hashes(level)
        IN h2(left, right)]

RECURSIVE NodesAt(_, _, _)
NodesAt(store, win, level) ==
    IF level = 0 THEN Leaves(store, win)
    ELSE LevelUp(NodesAt(store, win, level - 1), level - 1)

recompute_root(store, win) ==
    LET top == NodesAt(store, win, TreeDepth)
    IN IF 0 \in DOMAIN top THEN top[0] ELSE zero_hashes(TreeDepth)

SmtNew == [store |-> <<>>, win |-> <<>>, root |-> zero_hashes(TreeDepth)]

SmtGet(t, key) == IF key \in DOMAIN t.store THEN t.store[key] ELSE None

\* the map without `key`
MapRemove(f, key) == [k \in DOMAIN f \ {key} |-> f[k]]

\* the map with `key` set to `value`
MapPut(f, key, value) == [k \in DOMAIN f \cup {key} |-> IF k = key THEN value ELSE f[k]]

\* update(key, value): insert, overwrite or delete, then recompute the root.
\* `last` is the set of keys that the HashMap iterates after the keys they
\* collide with when they are inserted.
SmtUpdate(t, key, value, last) ==
    LET i == key_index(key)
        store2 == IF value # None THEN MapPut(t.store, key, value)
                  ELSE MapRemove(t.store, key)
        same == {k \in DOMAIN store2 : key_index(k) = i}
        win2 == IF value # None
                THEN IF key \in DOMAIN t.store \/ (i \in DOMAIN t.win /\ key \notin last)
                     THEN t.win
                     ELSE MapPut(t.win, i, key)
                ELSE IF key \notin DOMAIN t.store THEN t.win
                     ELSE IF same = {} THEN MapRemove(t.win, i)
                     ELSE IF t.win[i] # key THEN t.win
                     ELSE MapPut(t.win, i, IF same \cap last # {}
                                           THEN CHOOSE k \in same \cap last : TRUE
                                           ELSE CHOOSE k \in same : TRUE)
    IN [store |-> store2, win |-> win2, root |-> recompute_root(store2, win2)]

\* prove(key): the value at key and the sibling of each level
RECURSIVE ProveSiblings(_, _, _)
ProveSiblings(present, idx, level) ==
    IF level = TreeDepth THEN <<>>
    ELSE LET sib_idx == IF idx % 2 = 0 THEN idx + 1 ELSE idx - 1
             sib == IF sib_idx \in DOMAIN present THEN present[sib_idx] ELSE zero_hashes(level)
         IN <<sib>> \o ProveSiblings(LevelUp(present, level), idx \div 2, level + 1)

SmtProve(t, key) ==
    [value |-> SmtGet(t, key),
     siblings |-> ProveSiblings(Leaves(t.store, t.win), key_index(key), 0)]

\* a fold that takes the siblings above the index bits to be the empty
\* subtree's and does not read them from the proof
RECURSIVE VerifyFold_DefaultUpper(_, _, _, _)
VerifyFold_DefaultUpper(cur, idx, siblings, level) ==
    IF level > Len(siblings) THEN cur
    ELSE LET sib == IF level > IdxBits THEN zero_hashes(level - 1) ELSE siblings[level]
             left == IF idx % 2 = 0 THEN cur ELSE sib
             right == IF idx % 2 = 0 THEN sib ELSE cur
         IN VerifyFold_DefaultUpper(h2(left, right), idx \div 2, siblings, level + 1)

\* verify(root, key, value, proof)
RECURSIVE VerifyFold(_, _, _, _)
VerifyFold(cur, idx, siblings, level) ==
    IF level > Len(siblings) THEN cur
    ELSE LET sib == siblings[level]
             left == IF idx % 2 = 0 THEN cur ELSE sib
             right == IF idx % 2 = 0 THEN sib ELSE cur
         IN VerifyFold(h2(left, right), idx \div 2, siblings, level + 1)

\* a verify that folds a proof of any length
SmtVerify_AnyLength(root, key, value, siblings) ==
    LET cur == IF value # None THEN LeafHash(key, value) ELSE zero_hashes(0)
    IN VerifyFold(cur, key_index(key), siblings, 1) = root

SmtVerify(root, key, value, siblings) ==
    IF Len(siblings) # TreeDepth THEN FALSE
    ELSE LET cur == IF value # None THEN LeafHash(key, value) ELSE zero_hashes(0)
         IN VerifyFold(cur, key_index(key), siblings, 1) = root

(* ------------------------------ integers ------------------------------- *)

U128Max == Pow2(U128Bits) - 1

\* u128::saturating_add
SatAdd(a, b) == IF a + b > U128Max THEN U128Max ELSE a + b

\* u128::saturating_sub
SatSub(a, b) == IF a < b THEN 0 ELSE a - b

\* u128 multiplication as the release build computes it (wrapping)
WrapMul(a, b) == (a * b) % (U128Max + 1)

(* --------------------------- program constants ------------------------- *)

CHAIN_ID == 1337
LAYER0_APPRECIATION_RATE == 1000
AppreciationDenominator == 1000000
\* layer0_faucet_balance of new_with_genesis (10^18 in the code), scaled to
\* the model's integer width
Layer0FaucetBalance == 3000
\* the faucet's native allocation of the node's main (10^12 in the code),
\* scaled to the model's integer width
GenesisBalance == 2000
\* blocks between two halvings of the Layer0 reward (100_000 in the code)
LAYER0_HALVING_BLOCKS == 1

(* ------------------------------ signatures ----------------------------- *)

Secrets == {1, 2}

\* addresses: AddrA and AddrB are the key commitments of the secrets 1 and 2,
\* AddrC is an address nobody holds the secret of; AddrB and AddrC agree on
\* their last 8 bytes
AddrA == <<7, 0, 0, 1>>
AddrB == <<8, 0, 0, 2>>
AddrC == <<9, 0, 0, 2>>
Addrs == {AddrA, AddrB, AddrC}

\* DevStarkEngine::h on a secret: pubkey = H(sk)
PubkeyHash(sk) == IF sk = 1 THEN AddrA ELSE IF sk = 2 THEN AddrB ELSE <<sk, 0, 0, 3>>

\* the signed message: serde_json of (from, to, amount, fee, nonce, CHAIN_ID)
TxMsg(from, to, amount, fee, nonce) == from \o to \o <<amount, fee, nonce, CHAIN_ID>>

\* DevStarkEngine::sign
StarkSign(sk, msg, nonce) ==
    [msg_hash |-> h(msg),
     sig |-> h(<<sk>> \o h(msg) \o <<nonce>>),
     proof |-> <<sk>>,
     pubkey_hash |-> PubkeyHash(sk),
     nonce |-> nonce]

\* a verify that trusts the message hash carried by the signature
StarkVerifyCarriedHash(sig, msg) ==
    /\ Len(sig.proof) = 1
    /\ PubkeyHash(sig.proof[1]) = sig.pubkey_hash
    /\ h(sig.proof \o sig.msg_hash \o <<sig.nonce>>) = sig.sig

\* DevStarkEngine::verify; the 32 proof bytes are the one-element sequence <<sk>>
StarkVerify(sig, msg) ==
    /\ h(msg) = sig.msg_hash
    /\ Len(sig.proof) = 1
    /\ PubkeyHash(sig.proof[1]) = sig.pubkey_hash
    /\ h(sig.proof \o h(msg) \o <<sig.nonce>>) = sig.sig

(* -------------------------------- State -------------------------------- *)

TokenTypes == {"Layer0", "LongYield", "Native"}

ZeroAccount == [balance |-> 0, nonce |-> 0, layer0_balance |-> 0, longyield_balance |-> 0]

\* u128_to_h256: the value big-endian in bytes 16..32
u128_to_h256(x) == <<0, 0, 0, x>>

\* the commitment of set_account and reconstruct_smt:
\* blake3(balance || nonce || layer0_balance || longyield_balance)
AccountHash(a) == h(<<a.balance, a.nonce, a.layer0_balance, a.longyield_balance>>)

\* the loop of new_with_genesis over genesis_alloc
RECURSIVE GenesisLoop(_, _, _, _, _)
GenesisLoop(alloc, i, accounts, smt, last) ==
    IF i > Len(alloc) THEN [accounts |-> accounts, smt |-> smt]
    ELSE LET addr == alloc[i][1]
             bal == alloc[i][2]
             acct == [balance |-> bal, nonce |-> 0,
                      layer0_balance |-> IF bal > 0 THEN Layer0FaucetBalance ELSE 0,
                      longyield_balance |-> 0]
         IN GenesisLoop(alloc, i + 1, MapPut(accounts, addr, acct),
                        SmtUpdate(smt, addr, u128_to_h256(bal), last), last)

new_with_genesis(alloc, last) ==
    LET g == GenesisLoop(alloc, 1, <<>>, SmtNew, last)
    IN [accounts |-> g.accounts,
        height |-> 0,
        last_block_hash |-> <<0, 0, 0, 0>>,
        state_root |-> g.smt.root,
        layer0_circulating |-> Layer0FaucetBalance,
        longyield_circulating |-> 0,
        smt |-> g.smt]

\* accounts.get(hex(addr)).cloned().unwrap_or(zero account)
GetAccount(st, addr) == IF addr \in DOMAIN st.accounts THEN st.accounts[addr] ELSE ZeroAccount

\* a set_account over a table of two entries that evicts one for a new address
set_account_Bounded(st, addr, acct, last) ==
    LET smt2 == SmtUpdate(st.smt, addr, AccountHash(acct), last)
        kept == IF addr \notin DOMAIN st.accounts /\ Cardinality(DOMAIN st.accounts) >= 2
                THEN MapRemove(st.accounts, CHOOSE a \in DOMAIN st.accounts : TRUE)
                ELSE st.accounts
    IN [st EXCEPT !.accounts = MapPut(kept, addr, acct),
                  !.smt = smt2,
                  !.state_root = smt2.root]

set_account(st, addr, acct, last) ==
    LET smt2 == SmtUpdate(st.smt, addr, AccountHash(acct), last)
    IN [st EXCEPT !.accounts = MapPut(@, addr, acct),
                  !.smt = smt2,
                  !.state_root = smt2.root]

\* prove_account for a well-formed address
prove_account(st, addr) ==
    [account |-> IF addr \in DOMAIN st.accounts THEN <<st.accounts[addr]>> ELSE <<>>,
     siblings |-> SmtProve(st.smt, addr).siblings]

\* reconstruct_smt: a fresh tree, one update per entry of the account table,
\* `order` being the iteration order of the accounts map
RECURSIVE ReconstructLoop(_, _, _, _, _)
ReconstructLoop(accounts, order, i, smt, last) ==
    IF i > Len(order) THEN smt
    ELSE ReconstructLoop(accounts, order, i + 1,
                         SmtUpdate(smt, order[i], AccountHash(accounts[order[i]]), last), last)

reconstruct_smt(st, order, last) ==
    LET smt2 == ReconstructLoop(st.accounts, order, 1, SmtNew, last)
    IN [st EXCEPT !.smt = smt2, !.state_root = smt2.root]

(* ------------------------------- apply_tx ------------------------------ *)

\* an apply_tx that writes the sender's nonce before it tests the balance
apply_tx_NonceFirst(st, tx, last) ==
    LET msg == TxMsg(tx.from, tx.to, tx.amount, tx.fee, tx.signature.nonce)
        from0 == GetAccount(st, tx.from)
        to0 == GetAccount(st, tx.to)
        spend == SatAdd(tx.amount, tx.fee)
        appreciation == WrapMul(tx.amount, LAYER0_APPRECIATION_RATE) \div AppreciationDenominator
        enough == CASE tx.token_type = "Layer0" -> from0.layer0_balance >= tx.amount
                    [] tx.token_type = "LongYield" -> from0.longyield_balance >= spend
                    [] OTHER -> from0.balance >= spend
        from1 == CASE tx.token_type = "Layer0" ->
                        [from0 EXCEPT !.layer0_balance = @ - tx.amount]
                   [] tx.token_type = "LongYield" ->
                        [from0 EXCEPT !.longyield_balance = @ - spend]
                   [] OTHER -> [from0 EXCEPT !.balance = @ - spend]
        to1 == CASE tx.token_type = "Layer0" ->
                        [to0 EXCEPT !.layer0_balance = SatAdd(SatAdd(@, tx.amount), appreciation)]
                 [] tx.token_type = "LongYield" ->
                        [to0 EXCEPT !.longyield_balance = SatAdd(@, tx.amount)]
                 [] OTHER -> [to0 EXCEPT !.balance = SatAdd(@, tx.amount)]
        st1 == IF tx.token_type = "LongYield"
               THEN [st EXCEPT !.longyield_circulating = SatSub(@, tx.fee)]
               ELSE st
        from2 == [from1 EXCEPT !.nonce = @ + 1]
        st2 == set_account(st1, tx.from, from2, last)
        st3 == set_account(st2, tx.to, to1, last)
    IN IF ~StarkVerify(tx.signature, msg) THEN [ok |-> FALSE, st |-> st]
       ELSE IF from0.nonce # tx.signature.nonce THEN [ok |-> FALSE, st |-> st]
       ELSE IF ~enough THEN [ok |-> FALSE, st |-> set_account(st, tx.from, [from0 EXCEPT !.nonce = @ + 1], last)]
       ELSE [ok |-> TRUE, st |-> st3]

\* an apply_tx that takes the amount, not the fee, from a Native sender
apply_tx_FeeUncharged(st, tx, last) ==
    LET msg == TxMsg(tx.from, tx.to, tx.amount, tx.fee, tx.signature.nonce)
        from0 == GetAccount(st, tx.from)
        to0 == GetAccount(st, tx.to)
        spend == SatAdd(tx.amount, tx.fee)
        appreciation == WrapMul(tx.amount, LAYER0_APPRECIATION_RATE) \div AppreciationDenominator
        enough == CASE tx.token_type = "Layer0" -> from0.layer0_balance >= tx.amount
                    [] tx.token_type = "LongYield" -> from0.longyield_balance >= spend
                    [] OTHER -> from0.balance >= spend
        from1 == CASE tx.token_type = "Layer0" ->
                        [from0 EXCEPT !.layer0_balance = @ - tx.amount]
                   [] tx.token_type = "LongYield" ->
                        [from0 EXCEPT !.longyield_balance = @ - spend]
                   [] OTHER -> [from0 EXCEPT !.balance = @ - tx.amount]
        to1 == CASE tx.token_type = "Layer0" ->
                        [to0 EXCEPT !.layer0_balance = SatAdd(SatAdd(@, tx.amount), appreciation)]
                 [] tx.token_type = "LongYield" ->
                        [to0 EXCEPT !.longyield_balance = SatAdd(@, tx.amount)]
                 [] OTHER -> [to0 EXCEPT !.balance = SatAdd(@, tx.amount)]
        st1 == IF tx.token_type = "LongYield"
               THEN [st EXCEPT !.longyield_circulating = SatSub(@, tx.fee)]
               ELSE st
        from2 == [from1 EXCEPT !.nonce = @ + 1]
        st2 == set_account(st1, tx.from, from2, last)
        st3 == set_account(st2, tx.to, to1, last)
    IN IF ~StarkVerify(tx.signature, msg) THEN [ok |-> FALSE, st |-> st]
       ELSE IF from0.nonce # tx.signature.nonce THEN [ok |-> FALSE, st |-> st]
       ELSE IF ~enough THEN [ok |-> FALSE, st |-> st]
       ELSE [ok |-> TRUE, st |-> st3]

\* an apply_tx that moves LongYield without testing the sender's balance
apply_tx_LongYieldUnchecked(st, tx, last) ==
    LET msg == TxMsg(tx.from, tx.to, tx.amount, tx.fee, tx.signature.nonce)
        from0 == GetAccount(st, tx.from)
        to0 == GetAccount(st, tx.to)
        spend == SatAdd(tx.amount, tx.fee)
        appreciation == WrapMul(tx.amount, LAYER0_APPRECIATION_RATE) \div AppreciationDenominator
        enough == CASE tx.token_type = "Layer0" -> from0.layer0_balance >= tx.amount
                    [] tx.token_type = "LongYield" -> TRUE
                    [] OTHER -> from0.balance >= spend
        from1 == CASE tx.token_type = "Layer0" ->
                        [from0 EXCEPT !.layer0_balance = @ - tx.amount]
                   [] tx.token_type = "LongYield" ->
                        [from0 EXCEPT !.longyield_balance = SatSub(@, spend)]
                   [] OTHER -> [from0 EXCEPT !.balance = @ - spend]
        to1 == CASE tx.token_type = "Layer0" ->
                        [to0 EXCEPT !.layer0_balance = SatAdd(SatAdd(@, tx.amount), appreciation)]
                 [] tx.token_type = "LongYield" ->
                        [to0 EXCEPT !.longyield_balance = SatAdd(@, tx.amount)]
                 [] OTHER -> [to0 EXCEPT !.balance = SatAdd(@, tx.amount)]
        st1 == IF tx.token_type = "LongYield"
               THEN [st EXCEPT !.longyield_circulating = SatSub(@, tx.fee)]
               ELSE st
        from2 == [from1 EXCEPT !.nonce = @ + 1]
        st2 == set_account(st1, tx.from, from2, last)
        st3 == set_account(st2, tx.to, to1, last)
    IN IF ~StarkVerify(tx.signature, msg) THEN [ok |-> FALSE, st |-> st]
       ELSE IF from0.nonce # tx.signature.nonce THEN [ok |-> FALSE, st |-> st]
       ELSE IF ~enough THEN [ok |-> FALSE, st |-> st]
       ELSE [ok |-> TRUE, st |-> st3]

\* Chain::apply_tx: the result and the State it leaves
apply_tx(st, tx, last) ==
    LET msg == TxMsg(tx.from, tx.to, tx.amount, tx.fee, tx.signature.nonce)
        from0 == GetAccount(st, tx.from)
        to0 == GetAccount(st, tx.to)
        spend == SatAdd(tx.amount, tx.fee)
        appreciation == WrapMul(tx.amount, LAYER0_APPRECIATION_RATE) \div AppreciationDenominator
        enough == CASE tx.token_type = "Layer0" -> from0.layer0_balance >= tx.amount
                    [] tx.token_type = "LongYield" -> from0.longyield_balance >= spend
                    [] OTHER -> from0.balance >= spend
        from1 == CASE tx.token_type = "Layer0" ->
                        [from0 EXCEPT !.layer0_balance = @ - tx.amount]
                   [] tx.token_type = "LongYield" ->
                        [from0 EXCEPT !.longyield_balance = @ - spend]
                   [] OTHER -> [from0 EXCEPT !.balance = @ - spend]
        to1 == CASE tx.token_type = "Layer0" ->
                        [to0 EXCEPT !.layer0_balance = SatAdd(SatAdd(@, tx.amount), appreciation)]
                 [] tx.token_type = "LongYield" ->
                        [to0 EXCEPT !.longyield_balance = SatAdd(@, tx.amount)]
                 [] OTHER -> [to0 EXCEPT !.balance = SatAdd(@, tx.amount)]
        st1 == IF tx.token_type = "LongYield"
               THEN [st EXCEPT !.longyield_circulating = SatSub(@, tx.fee)]
               ELSE st
        from2 == [from1 EXCEPT !.nonce = @ + 1]
        st2 == set_account(st1, tx.from, from2, last)
        st3 == set_account(st2, tx.to, to1, last)
    IN IF ~StarkVerify(tx.signature, msg) THEN [ok |-> FALSE, st |-> st]
       ELSE IF from0.nonce # tx.signature.nonce THEN [ok |-> FALSE, st |-> st]
       ELSE IF ~enough THEN [ok |-> FALSE, st |-> st]
       ELSE [ok |-> TRUE, st |-> st3]

(* ------------------------------- inputs -------------------------------- *)

Nonces == {0, 1}

\* a transaction file: the fields of Tx with a signature made by `sk` over
\* the message of (from, to, amount, fee, nonce)
MakeTx(sk, from, to, amount, fee, nonce, token) ==
    [from |-> from, to |-> to, amount |-> amount, fee |-> fee,
     signature |-> StarkSign(sk, TxMsg(from, to, amount, fee, nonce), nonce),
     token_type |-> token]

\* the transaction files of the model: the transfers the holder of AddrA
\* signs (with and without a fee), those the holder of AddrB signs, and
\* transfers out of AddrA signed with the secret of AddrB
TxUniverse ==
    {MakeTx(1, AddrA, to, af[1], af[2], nonce, token) :
        to \in Addrs, af \in {<<1000, 1>>, <<0, 0>>}, nonce \in Nonces, token \in TokenTypes}
    \cup {MakeTx(1, AddrA, AddrA, 1000, 0, nonce, token) : nonce \in Nonces, token \in TokenTypes}
    \cup {MakeTx(2, AddrB, to, 1000, 1, 0, "Native") : to \in {AddrA, AddrC}}
    \cup {MakeTx(2, AddrA, AddrB, 1000, 1, nonce, "Native") : nonce \in Nonces}
    \cup {MakeTx(1, AddrA, to, 1000, 10, 0, "Native") : to \in {AddrB, AddrC}}

\* the value of a transaction slot that holds no transaction yet
NoTx == MakeTx(1, AddrA, AddrA, 0, 0, 0, "Native")

\* the keys and values of the stand-alone tree
SmtKeys == {AddrA, AddrB, AddrC, <<1, 0, 0, 0>>}
SmtValues == {u128_to_h256(5), AccountHash(ZeroAccount)}

\* genesis allocations: the node's single faucet
GenesisAllocs == {<<<<AddrA, GenesisBalance>>>>}

(* -------------------------------- state -------------------------------- *)

VARIABLES
    tree,         \* a stand-alone SparseMerkleTree
    smt_ops,      \* number of updates made to `tree`
    state,        \* the State behind the Mutex
    mempool,      \* the files of mempool_dir: [id, tx]
    submitted,    \* number of files ever written to mempool_dir
    blocks,       \* the blocks emitted so far
    clock,        \* now_ts()
    applied_log,  \* per applied transaction of the last cycle: the accounts before and after
    processed_log, \* per file listed by the last cycle: the transaction and what apply_tx returned
    ap,           \* a call of apply_tx on its own: the State passed, the transaction, the result
    node,         \* the node process: the production loop's position and locals, the
                  \* Mutex, the files that do not parse, the reader
    disk          \* the Storage object and its files: the transaction index, the
                  \* checkpoints directory, last_checkpoint

vars == <<tree, smt_ops, state, mempool, submitted, blocks, clock, applied_log, processed_log, ap,
          node, disk>>
chain_vars == <<state, mempool, submitted, blocks, clock, applied_log, processed_log>>
smt_vars == <<tree, smt_ops>>

\* what a reader copies out of the State while it holds the lock
Snapshot(st) ==
    [accounts |-> st.accounts, height |-> st.height, state_root |-> st.state_root,
     last_block_hash |-> st.last_block_hash]

\* the node process at start-up, on the State `st`
NodeStart(st) ==
    [pc |-> "sleep", lock |-> "free", cycles |-> 0,
     txs |-> <<>>, i |-> 1, applied |-> <<>>, block |-> <<>>, failed |-> FALSE,
     junk |-> {}, reader |-> "idle", seen |-> <<>>, committed |-> {Snapshot(st)},
     checks |-> "unknown", rewards |-> <<>>]

\* Storage::new on an empty data directory
DiskStart ==
    [index |-> <<>>, index_tmp |-> <<>>, checkpoints |-> {}, last_checkpoint |-> 0,
     height |-> 0, tx_index |-> 0, restarts |-> 0, calls |-> 0,
     indexed |-> <<>>, written |-> {}, io_error |-> FALSE]

Init ==
    /\ tree = SmtNew
    /\ smt_ops = 0
    /\ \E alloc \in GenesisAllocs, newlast \in BOOLEAN :
            state = new_with_genesis(alloc, IF newlast THEN Addrs ELSE {})
    /\ mempool = {}
    /\ submitted = 0
    /\ blocks = <<>>
    /\ clock = 0
    /\ applied_log = <<>>
    /\ processed_log = {}
    /\ ap = [calls |-> 0, st |-> state, tx |-> NoTx, ok |-> FALSE, out |-> state]
    /\ node = NodeStart(state)
    /\ disk = DiskStart

(* --------------------------- the tree alone ---------------------------- *)

\* SparseMerkleTree::update on the stand-alone tree
Update(key, value, last) ==
    /\ smt_ops < MaxSmtOps
    /\ tree' = SmtUpdate(tree, key, value, last)
    /\ smt_ops' = smt_ops + 1
    /\ UNCHANGED <<chain_vars, ap, node, disk>>

NextSmt ==
    \E key \in SmtKeys, value \in SmtValues \cup {None}, last \in {{}, SmtKeys} :
        Update(key, value, last)

SpecSmt == Init /\ [][NextSmt]_vars

(* ----------------------------- the mempool ----------------------------- *)

\* a transaction file appears in mempool_dir (the node's submit handlers, or
\* any other writer of the directory)
SubmitTx(tx) ==
    /\ submitted < MaxSubmits
    /\ submitted' = submitted + 1
    /\ mempool' = mempool \cup {[id |-> submitted + 1, tx |-> tx]}
    /\ UNCHANGED <<tree, smt_ops, state, blocks, clock, applied_log, processed_log, ap, node,
                   disk>>

(* --------------------------- make_block_once --------------------------- *)

\* the orders in which read_dir can list a set of files
RECURSIVE Orders(_)
Orders(S) ==
    IF S = {} THEN {<<>>}
    ELSE UNION {{<<e>> \o o : o \in Orders(S \ {e})} : e \in S}

\* a loop that ends at the first transaction apply_tx rejects
RECURSIVE ApplyLoop_StopAtFirst(_, _, _, _)
ApplyLoop_StopAtFirst(acc, order, i, last) ==
    IF i > Len(order) THEN acc
    ELSE LET tx == order[i].tx
             r == apply_tx(acc.st, tx, last)
             rec == [tx |-> tx,
                     from_before |-> GetAccount(acc.st, tx.from),
                     to_before |-> GetAccount(acc.st, tx.to),
                     from_after |-> GetAccount(r.st, tx.from),
                     to_after |-> GetAccount(r.st, tx.to)]
             seen == [id |-> order[i].id, tx |-> tx, ok |-> r.ok,
                      from_before |-> GetAccount(acc.st, tx.from)]
         IN IF r.ok
            THEN ApplyLoop_StopAtFirst([st |-> r.st,
                            applied |-> Append(acc.applied, tx),
                            removed |-> acc.removed \cup {order[i]},
                            log |-> Append(acc.log, rec),
                            processed |-> acc.processed \cup {seen}],
                           order, i + 1, last)
            ELSE [acc EXCEPT !.processed = @ \cup {seen}]

\* the loop over the listed files: apply_tx on each, removing the file and
\* keeping the transaction when it is applied
RECURSIVE ApplyLoop(_, _, _, _)
ApplyLoop(acc, order, i, last) ==
    IF i > Len(order) THEN acc
    ELSE LET tx == order[i].tx
             r == apply_tx(acc.st, tx, last)
             rec == [tx |-> tx,
                     from_before |-> GetAccount(acc.st, tx.from),
                     to_before |-> GetAccount(acc.st, tx.to),
                     from_after |-> GetAccount(r.st, tx.from),
                     to_after |-> GetAccount(r.st, tx.to)]
             seen == [id |-> order[i].id, tx |-> tx, ok |-> r.ok,
                      from_before |-> GetAccount(acc.st, tx.from)]
         IN IF r.ok
            THEN ApplyLoop([st |-> r.st,
                            applied |-> Append(acc.applied, tx),
                            removed |-> acc.removed \cup {order[i]},
                            log |-> Append(acc.log, rec),
                            processed |-> acc.processed \cup {seen}],
                           order, i + 1, last)
            ELSE ApplyLoop([acc EXCEPT !.processed = @ \cup {seen}], order, i + 1, last)

\* serde_json of a transaction
EncTx(tx) ==
    tx.from \o tx.to \o <<tx.amount, tx.fee>>
    \o tx.signature.msg_hash \o tx.signature.sig \o tx.signature.proof
    \o tx.signature.pubkey_hash \o <<tx.signature.nonce>>
    \o <<CASE tx.token_type = "Layer0" -> 0 [] tx.token_type = "LongYield" -> 1 [] OTHER -> 2>>

RECURSIVE ConcatTxs(_, _)
ConcatTxs(txs, i) == IF i > Len(txs) THEN <<>> ELSE EncTx(txs[i]) \o ConcatTxs(txs, i + 1)

\* h_txs: the hash of the concatenated encodings
h_txs(txs) == h(ConcatTxs(txs, 1))

\* h_block_header: the hash of the encoded header (its two reward fields are
\* functions of the height and add nothing to the preimage)
h_block_header(header) ==
    h(<<header.height, header.timestamp>> \o header.tx_root \o header.state_root)

\* the key and value written for an empty block
EmptyBlockKey(height, ts) == <<height, ts, 0, 0>>
EmptyBlockHash(height, ts, last_block_hash) == h(<<height, ts>> \o last_block_hash)

\* a cycle that advances the height only when a transaction was applied
make_block_once_KeepHeight(run, t1, t2, t3, last) ==
    LET st1 == IF run.applied = <<>> THEN run.st ELSE [run.st EXCEPT !.height = @ + 1]
        st2 == IF run.applied = <<>>
               THEN [st1 EXCEPT !.smt = SmtUpdate(@, EmptyBlockKey(st1.height, t1),
                                    EmptyBlockHash(st1.height, t2, st1.last_block_hash), last)]
               ELSE st1
        st3 == [st2 EXCEPT !.state_root = st2.smt.root]
        header == [height |-> st3.height, timestamp |-> t3,
                   tx_root |-> h_txs(run.applied), state_root |-> st3.state_root]
        block == [header |-> header, txs |-> run.applied]
    IN /\ state' = [st3 EXCEPT !.last_block_hash = h_block_header(header)]
       /\ mempool' = mempool \ run.removed
       /\ blocks' = Append(blocks, block)
       /\ applied_log' = run.log
       /\ processed_log' = run.processed
       /\ clock' = t3

\* a cycle whose header takes the state root as it was before the
\* empty-block entry was written
make_block_once_RootBeforeEmpty(run, t1, t2, t3, last) ==
    LET st1 == [run.st EXCEPT !.height = @ + 1]
        st2 == IF run.applied = <<>>
               THEN [st1 EXCEPT !.smt = SmtUpdate(@, EmptyBlockKey(st1.height, t1),
                                    EmptyBlockHash(st1.height, t2, st1.last_block_hash), last)]
               ELSE st1
        st3 == [st2 EXCEPT !.state_root = st2.smt.root]
        header == [height |-> st3.height, timestamp |-> t3,
                   tx_root |-> h_txs(run.applied), state_root |-> st1.smt.root]
        block == [header |-> header, txs |-> run.applied]
    IN /\ state' = [st3 EXCEPT !.last_block_hash = h_block_header(header)]
       /\ mempool' = mempool \ run.removed
       /\ blocks' = Append(blocks, block)
       /\ applied_log' = run.log
       /\ processed_log' = run.processed
       /\ clock' = t3

\* Chain::make_block_once after the loop: the height, the empty-block entry,
\* the header and the block
make_block_once(run, t1, t2, t3, last) ==
    LET st1 == [run.st EXCEPT !.height = @ + 1]
        st2 == IF run.applied = <<>>
               THEN [st1 EXCEPT !.smt = SmtUpdate(@, EmptyBlockKey(st1.height, t1),
                                    EmptyBlockHash(st1.height, t2, st1.last_block_hash), last)]
               ELSE st1
        st3 == [st2 EXCEPT !.state_root = st2.smt.root]
        header == [height |-> st3.height, timestamp |-> t3,
                   tx_root |-> h_txs(run.applied), state_root |-> st3.state_root]
        block == [header |-> header, txs |-> run.applied]
    IN /\ state' = [st3 EXCEPT !.last_block_hash = h_block_header(header)]
       /\ mempool' = mempool \ run.removed
       /\ blocks' = Append(blocks, block)
       /\ applied_log' = run.log
       /\ processed_log' = run.processed
       /\ clock' = t3

\* one cycle: the listing order of the files, the three readings of the clock
\* and the iteration order of the tree's map are inputs.  The Storage calls
\* that end the cycle write the block and the snapshot to disk and leave the
\* State as committed.
MakeBlock ==
    /\ state.height < MaxHeight
    /\ \E order \in Orders(mempool), newlast \in BOOLEAN :
        LET last == IF newlast THEN Addrs \cup {EmptyBlockKey(state.height + 1, t) : t \in 0..MaxTime}
                    ELSE {}
            run == ApplyLoop([st |-> state, applied |-> <<>>, removed |-> {}, log |-> <<>>,
                              processed |-> {}], order, 1, last)
        IN IF run.applied = <<>>
           THEN \E t1 \in clock..MaxTime : \E t2 \in t1..MaxTime : \E t3 \in t2..MaxTime :
                    make_block_once(run, t1, t2, t3, last)
           ELSE \E t3 \in clock..MaxTime : make_block_once(run, t3, t3, t3, last)
    /\ UNCHANGED <<tree, smt_ops, submitted, ap, node, disk>>

Next ==
    \/ \E tx \in TxUniverse : SubmitTx(tx)
    \/ MakeBlock

Spec == Init /\ [][Next]_vars

(* --------------------------- apply_tx alone ---------------------------- *)

\* the transactions passed to apply_tx on its own: those of a holder of
\* AddrA in every token, with amounts up to the largest, with a nonce ahead
\* of the account's, those of AddrB, a transfer out of AddrA signed by AddrB,
\* and signed transactions of which one field was changed after signing
SignedByA ==
    {MakeTx(1, AddrA, to, af[1], af[2], nonce, token) :
        to \in Addrs, af \in {<<1000, 1>>, <<0, 0>>}, nonce \in Nonces, token \in TokenTypes}
    \cup {MakeTx(1, AddrA, AddrB, U128Max, fee, 0, token) : fee \in {0, 1}, token \in TokenTypes}
    \cup {MakeTx(1, AddrA, AddrB, 1000, 1, 5, token) : token \in TokenTypes}

TamperedTxs ==
    LET t == MakeTx(1, AddrA, AddrB, 1000, 1, 0, "Native")
        other == MakeTx(1, AddrA, AddrB, 0, 0, 0, "Native")
    IN {[t EXCEPT !.amount = 0], [t EXCEPT !.amount = U128Max], [t EXCEPT !.fee = 0],
        [t EXCEPT !.to = AddrC], [t EXCEPT !.from = AddrB],
        [t EXCEPT !.signature.nonce = 1], [t EXCEPT !.signature.sig = other.signature.sig],
        [t EXCEPT !.signature.proof = <<>>], [t EXCEPT !.signature.proof = <<2>>],
        [t EXCEPT !.signature.pubkey_hash = AddrB],
        [t EXCEPT !.amount = 0, !.signature.msg_hash = other.signature.msg_hash]}

ApplyTxUniverse ==
    SignedByA
    \cup {MakeTx(2, AddrB, to, 1000, 1, 0, "Native") : to \in {AddrA, AddrC}}
    \cup {MakeTx(2, AddrA, AddrB, 1000, 1, nonce, "Native") : nonce \in {0, 1}}
    \cup TamperedTxs

\* the ledgers apply_tx starts from: the node's genesis, a faucet holding the
\* largest balance, and a genesis with a second funded account
ApplyGenesisAllocs ==
    {<<<<AddrA, GenesisBalance>>>>,
     <<<<AddrA, U128Max>>>>,
     <<<<AddrA, GenesisBalance>>, <<AddrB, U128Max>>>>}

InitApply ==
    /\ tree = SmtNew
    /\ smt_ops = 0
    /\ state = new_with_genesis(CHOOSE alloc \in GenesisAllocs : TRUE, {})
    /\ mempool = {}
    /\ submitted = 0
    /\ blocks = <<>>
    /\ clock = 0
    /\ applied_log = <<>>
    /\ processed_log = {}
    /\ \E alloc \in ApplyGenesisAllocs :
        LET st == new_with_genesis(alloc, {})
        IN ap = [calls |-> 0, st |-> st, tx |-> NoTx, ok |-> FALSE, out |-> st]
    /\ node = NodeStart(state)
    /\ disk = DiskStart

\* apply_tx(st, tx) on the State the previous call left
ApplyTx(tx, last) ==
    /\ ap.calls < MaxApplyCalls
    /\ LET r == apply_tx(ap.out, tx, last)
       IN ap' = [calls |-> ap.calls + 1, st |-> ap.out, tx |-> tx, ok |-> r.ok, out |-> r.st]
    /\ UNCHANGED <<smt_vars, chain_vars, node, disk>>

NextApply == \E tx \in ApplyTxUniverse, newlast \in BOOLEAN : ApplyTx(tx, IF newlast THEN Addrs ELSE {})

SpecApply == InitApply /\ [][NextApply]_vars

(* ------------------------------- the node ------------------------------ *)

\* the transactions submitted to the running node: a transfer of the faucet
\* account, its successor, and one whose nonce is ahead of the account's
NodeTxs ==
    {MakeTx(1, AddrA, AddrB, 1000, 1, 0, "Native"),
     MakeTx(1, AddrA, AddrB, 0, 0, 1, "Native"),
     MakeTx(1, AddrA, AddrB, 1000, 1, 5, "Native")}

\* the name of a file of mempool_dir whose contents are not a transaction
JunkFiles == {"partial.json"}

\* the handlers that take the state lock to read
ReaderKinds == {"status", "balance", "proveAccount"}

\* calculate_layer0_reward: `LAYER0_BLOCK_REWARD >> halvings` with a shift
\* count that reaches the width of the integer
RewardShiftOverflows(height) == height \div LAYER0_HALVING_BLOCKS >= U128Bits

\* LAYER0_BLOCK_REWARD (100_000_000_000 in the code), scaled to the width
LAYER0_BLOCK_REWARD == 1000

\* the base component of calculate_layer0_reward where the shift returns:
\* `LAYER0_BLOCK_REWARD >> halvings`, the shift count taken modulo the width
\* of the integer (a build without overflow checks masks it; a build with
\* them panics when the count reaches the width and returns nothing)
base_reward(height) ==
    LAYER0_BLOCK_REWARD \div 2^((height \div LAYER0_HALVING_BLOCKS) % U128Bits)

\* one cycle over an empty mempool, as a function of the State
EmptyCycle(st) ==
    LET st1 == [st EXCEPT !.height = @ + 1]
        st2 == [st1 EXCEPT !.smt = SmtUpdate(@, EmptyBlockKey(st1.height, 0),
                                   EmptyBlockHash(st1.height, 0, st1.last_block_hash), {})]
        st3 == [st2 EXCEPT !.state_root = st2.smt.root]
        header == [height |-> st3.height, timestamp |-> 0,
                   tx_root |-> h_txs(<<>>), state_root |-> st3.state_root]
    IN [st3 EXCEPT !.last_block_hash = h_block_header(header)]

\* the State of a node that has produced `n` empty blocks
RECURSIVE LongRun(_, _)
LongRun(st, n) == IF n = 0 THEN st ELSE LongRun(EmptyCycle(st), n - 1)

\* the height of the last block whose reward shift is within the width
LastSafeHeight == U128Bits * LAYER0_HALVING_BLOCKS - 1

\* a reader that reads the State without waiting for the lock
ReaderMayLock_Always == TRUE

\* `ctx.state.lock()` of a reader returns when no cycle holds the lock
ReaderMayLock == node.lock = "free"

\* the node starts on the genesis State or has been producing blocks for a
\* long time
NodeInit ==
    /\ tree = SmtNew
    /\ smt_ops = 0
    /\ \E alloc \in GenesisAllocs :
         state \in {new_with_genesis(alloc, {}),
                    LongRun(new_with_genesis(alloc, {}), LastSafeHeight)}
    /\ mempool = {}
    /\ submitted = 0
    /\ blocks = <<>>
    /\ clock = 0
    /\ applied_log = <<>>
    /\ processed_log = {}
    /\ ap = [calls |-> 0, st |-> new_with_genesis(<<<<AddrA, GenesisBalance>>>>, {}),
             tx |-> NoTx, ok |-> FALSE, out |-> new_with_genesis(<<<<AddrA, GenesisBalance>>>>, {})]
    /\ node = NodeStart(state)
    /\ disk = DiskStart

node_frame == <<tree, smt_ops, submitted, applied_log, processed_log, ap, disk>>

\* a file that does not parse appears in mempool_dir
WriteJunk ==
    /\ node.pc # "exited"
    /\ \E f \in JunkFiles \ node.junk : node' = [node EXCEPT !.junk = @ \cup {f}]
    /\ UNCHANGED <<node_frame, state, mempool, blocks, clock>>

\* make_block_once, the listing: read_dir in its order, the files that parse
ListMempool ==
    /\ node.pc = "sleep"
    /\ node.cycles < MaxCycles
    /\ \E order \in Orders(mempool) :
         node' = [node EXCEPT !.pc = "listed", !.txs = order, !.i = 1, !.applied = <<>>,
                              !.block = <<>>, !.failed = FALSE]
    /\ UNCHANGED <<node_frame, state, mempool, blocks, clock>>

\* `let mut st = self.state.lock()`
LockState ==
    /\ node.pc = "listed"
    /\ node.lock = "free"
    /\ node' = [node EXCEPT !.pc = "apply", !.lock = "cycle"]
    /\ UNCHANGED <<node_frame, state, mempool, blocks, clock>>

\* a turn of the loop that removes the file whatever apply_tx returned
ApplyNext_RemoveAlways ==
    /\ node.pc = "apply"
    /\ node.i <= Len(node.txs)
    /\ \E newlast \in BOOLEAN :
         LET entry == node.txs[node.i]
             r == apply_tx(state, entry.tx, IF newlast THEN Addrs ELSE {})
         IN /\ state' = r.st
            /\ mempool' = mempool \ {entry}
            /\ node' = [node EXCEPT !.i = @ + 1,
                                    !.applied = IF r.ok THEN Append(@, entry.tx) ELSE @]
    /\ UNCHANGED <<node_frame, blocks, clock>>

\* one turn of the loop over the listed files
ApplyNext ==
    /\ node.pc = "apply"
    /\ node.i <= Len(node.txs)
    /\ \E newlast \in BOOLEAN :
         LET entry == node.txs[node.i]
             r == apply_tx(state, entry.tx, IF newlast THEN Addrs ELSE {})
         IN IF r.ok
            THEN /\ state' = r.st
                 /\ mempool' = mempool \ {entry}
                 /\ node' = [node EXCEPT !.i = @ + 1, !.applied = Append(@, entry.tx)]
            ELSE /\ node' = [node EXCEPT !.i = @ + 1]
                 /\ UNCHANGED <<state, mempool>>
    /\ UNCHANGED <<node_frame, blocks, clock>>

\* `st.height += 1`
AdvanceHeight ==
    /\ node.pc = "apply"
    /\ node.i > Len(node.txs)
    /\ state' = [state EXCEPT !.height = @ + 1]
    /\ node' = [node EXCEPT !.pc = "empty"]
    /\ UNCHANGED <<node_frame, mempool, blocks, clock>>

\* the empty-block entry, written when nothing was applied, and
\* `st.state_root = st.smt.root()`
CommitRoot ==
    /\ node.pc = "empty"
    /\ IF node.applied = <<>>
       THEN \E t1 \in clock..MaxTime, newlast \in BOOLEAN : \E t2 \in t1..MaxTime :
              LET last == IF newlast
                          THEN Addrs \cup {EmptyBlockKey(state.height, t) : t \in 0..MaxTime}
                          ELSE {}
                  smt2 == SmtUpdate(state.smt, EmptyBlockKey(state.height, t1),
                                    EmptyBlockHash(state.height, t2, state.last_block_hash), last)
              IN /\ state' = [state EXCEPT !.smt = smt2, !.state_root = smt2.root]
                 /\ clock' = t2
       ELSE /\ state' = [state EXCEPT !.state_root = state.smt.root]
            /\ UNCHANGED clock
    /\ node' = [node EXCEPT !.pc = "header"]
    /\ UNCHANGED <<node_frame, mempool, blocks>>

\* the header, the block and last_block_hash; in a build that does not check
\* overflow the reward's shift count is masked (that the build is so is
\* learnt at the first shift that overflows); `rewards` keeps the base
\* components calculate_layer0_reward computed in this run, by height
BuildHeader ==
    /\ node.pc = "header"
    /\ RewardShiftOverflows(state.height) => node.checks \in {"unknown", "off"}
    /\ \E t3 \in clock..MaxTime :
         LET header == [height |-> state.height, timestamp |-> t3,
                        tx_root |-> h_txs(node.applied), state_root |-> state.state_root]
         IN /\ state' = [state EXCEPT !.last_block_hash = h_block_header(header)]
            /\ node' = [node EXCEPT !.pc = "save_block",
                                    !.block = <<[header |-> header, txs |-> node.applied]>>,
                                    !.checks = IF RewardShiftOverflows(state.height)
                                               THEN "off" ELSE @,
                                    !.rewards = Append(@, [height |-> state.height,
                                                           base_reward |-> base_reward(state.height)])]
            /\ clock' = t3
    /\ UNCHANGED <<node_frame, mempool, blocks>>

\* calculate_layer0_reward panics on the shift in a build that checks
\* overflow: the guard is dropped by the unwinding and the process ends
RewardPanic ==
    /\ node.pc = "header"
    /\ RewardShiftOverflows(state.height)
    /\ node.checks \in {"unknown", "on"}
    /\ node' = [node EXCEPT !.pc = "exited", !.lock = "free", !.reader = "idle",
                            !.checks = "on"]
    /\ UNCHANGED <<node_frame, state, mempool, blocks, clock>>

\* after this Storage call the cycle is at
NextStep(pc) ==
    CASE pc = "save_block" -> "save_state"
      [] pc = "save_state" -> "create_checkpoint"
      [] pc = "create_checkpoint" -> "index_transaction"
      [] pc = "index_transaction" -> "create_backup"
      [] pc = "create_backup" -> "return"

StorageSteps == {"save_block", "save_state", "create_checkpoint", "index_transaction",
                 "create_backup"}

\* a Storage call whose error ends the cycle: the guard is dropped, main
\* sleeps and starts over
StorageCall_AbortOnError ==
    /\ node.pc \in StorageSteps
    /\ \E ok \in BOOLEAN :
         node' = IF ok THEN [node EXCEPT !.pc = NextStep(node.pc)]
                 ELSE [node EXCEPT !.pc = "sleep", !.lock = "free", !.failed = TRUE,
                                   !.cycles = @ + 1]
    /\ UNCHANGED <<node_frame, state, mempool, blocks, clock>>

\* one of the five Storage calls: it succeeds or fails, an error is printed
\* (what the calls leave in the files is followed in SpecStorage)
StorageCall ==
    /\ node.pc \in StorageSteps
    /\ \E ok \in BOOLEAN :
         node' = [node EXCEPT !.pc = NextStep(node.pc), !.failed = @ \/ ~ok]
    /\ UNCHANGED <<node_frame, state, mempool, blocks, clock>>

\* `Ok(Some(block))`: the guard goes out of scope
ReturnBlock ==
    /\ node.pc = "return"
    /\ node' = [node EXCEPT !.pc = "publish", !.lock = "free",
                            !.committed = @ \cup {Snapshot(state)}]
    /\ blocks' = Append(blocks, node.block[1])
    /\ UNCHANGED <<node_frame, state, mempool, clock>>

\* the loop of main on Ok(Some(block)): SSE, webhooks, publish_block, whose
\* errors are logged
Publish ==
    /\ node.pc = "publish"
    /\ \E ok \in BOOLEAN :
         node' = [node EXCEPT !.pc = "sleep", !.cycles = @ + 1]
    /\ UNCHANGED <<node_frame, state, mempool, blocks, clock>>

\* a request to status, balance or proveAccount arrives
ReaderRequest ==
    /\ node.pc # "exited"
    /\ node.reader = "idle"
    /\ node' = [node EXCEPT !.reader = "waiting"]
    /\ UNCHANGED <<node_frame, state, mempool, blocks, clock>>

\* the handler takes the lock, copies what it answers with, and returns
ReaderReturn ==
    /\ node.reader # "idle"
    /\ ReaderMayLock
    /\ \E k \in ReaderKinds :
         node' = [node EXCEPT !.reader = "idle", !.seen = <<Snapshot(state)>>]
    /\ UNCHANGED <<node_frame, state, mempool, blocks, clock>>

CycleStep ==
    \/ ListMempool
    \/ LockState
    \/ ApplyNext
    \/ AdvanceHeight
    \/ CommitRoot
    \/ BuildHeader
    \/ RewardPanic
    \/ StorageCall
    \/ ReturnBlock
    \/ Publish

NextNode ==
    \/ CycleStep
    \/ \E tx \in NodeTxs : node.pc # "exited" /\ SubmitTx(tx)
    \/ WriteJunk
    \/ ReaderRequest
    \/ ReaderReturn

SpecNode == NodeInit /\ [][NextNode]_vars

(* --------------------------- the proof handlers ------------------------ *)

\* u128::to_string: the decimal digits, most significant first
RECURSIVE ToDecimal(_)
ToDecimal(x) == IF x < 10 THEN <<x>> ELSE Append(ToDecimal(x \div 10), x % 10)

\* str::parse::<u128>().unwrap_or(u128::MAX)
RECURSIVE ParseDigits(_, _)
ParseDigits(digits, acc) ==
    IF digits = <<>> THEN acc
    ELSE IF acc * 10 + digits[1] > U128Max THEN U128Max + 1
    ELSE ParseDigits(Tail(digits), acc * 10 + digits[1])

ParseU128(digits) ==
    IF digits = <<>> \/ ParseDigits(digits, 0) > U128Max THEN U128Max
    ELSE ParseDigits(digits, 0)

\* hex::encode of 32 bytes, and dehex32, which accepts 64 hex digits
HexEncode(bytes) == [hex |-> bytes]
dehex32(str) == str.hex

\* v1_prove_account: the AccountProof returned for an address
v1_prove_account(st, addr) ==
    LET p == prove_account(st, addr)
        acct == IF p.account = <<>> THEN ZeroAccount ELSE p.account[1]
    IN [root |-> HexEncode(st.state_root),
        height |-> st.height,
        leaf |-> [addr |-> HexEncode(addr), balance |-> ToDecimal(acct.balance),
                  nonce |-> acct.nonce],
        path |-> [i \in 1..Len(p.siblings) |-> HexEncode(p.siblings[i])]]

\* v1_verify_proof: the `ok` of the response
v1_verify_proof(p) ==
    LET root == dehex32(p.root)
        addr == dehex32(p.leaf.addr)
        bal == ParseU128(p.leaf.balance)
        siblings == [i \in 1..Len(p.path) |-> dehex32(p.path[i])]
    IN IF Len(p.path) # TreeDepth THEN FALSE
       ELSE SmtVerify(root, addr, u128_to_h256(bal), siblings)

(* ------------------------------- Storage ------------------------------- *)

\* StorageConfig::default: checkpoint_interval (100 in the code) and
\* max_checkpoints (50 in the code)
checkpoint_interval == 2
max_checkpoints == 2

\* the hashes make_block_once indexes: h_txs of the one transaction
IndexHashes ==
    {h_txs(<<tx>>) : tx \in {MakeTx(1, AddrA, AddrB, 1000, 1, 0, "Native"),
                             MakeTx(1, AddrA, AddrB, 0, 0, 1, "Native")}}

\* format!("{:016x}", height): the hexadecimal digits, zero-padded to `width`
RECURSIVE HexPadded(_, _)
HexPadded(x, width) ==
    IF width = 0 THEN <<>> ELSE Append(HexPadded(x \div 16, width - 1), x % 16)

\* the name of the checkpoint file of a height, without its fixed prefix and
\* extension
CheckpointName(height) == HexPadded(height, HexWidth)

\* str::cmp on two names of the same length
RECURSIVE NameLess(_, _)
NameLess(a, b) ==
    IF a = <<>> \/ b = <<>> THEN a = <<>> /\ b # <<>>
    ELSE IF a[1] # b[1] THEN a[1] < b[1]
    ELSE NameLess(Tail(a), Tail(b))

\* the height a checkpoint file's name stands for
RECURSIVE HeightOfName(_)
HeightOfName(name) ==
    IF name = <<>> THEN 0
    ELSE 16 * HeightOfName(SubSeq(name, 1, Len(name) - 1)) + name[Len(name)]

\* cleanup_old_checkpoints: sort the names, remove the first len - max
cleanup_old_checkpoints(files) ==
    IF Cardinality(files) <= max_checkpoints THEN files
    ELSE {f \in files : Cardinality({g \in files : NameLess(f, g)}) < max_checkpoints}

\* create_checkpoint at `current_height`; `io` names the step that fails
create_checkpoint(d, current_height, io) ==
    IF current_height < d.last_checkpoint + checkpoint_interval THEN d
    ELSE IF io \in {"write", "rename"} THEN [d EXCEPT !.io_error = TRUE]
    ELSE LET files == d.checkpoints \cup {CheckpointName(current_height)}
         IN [d EXCEPT !.checkpoints = IF io = "cleanup" THEN files
                                      ELSE cleanup_old_checkpoints(files),
                      !.last_checkpoint = current_height,
                      !.written = @ \cup {current_height},
                      !.io_error = @ \/ io = "cleanup"]

\* index_transaction (indexing enabled): the entry is appended to
\* transactions.tmp, which is then renamed to transactions.jsonl
index_transaction(d, tx_hash, block_height, tx_index, io) ==
    LET entry == [tx_hash |-> HexEncode(tx_hash), block_height |-> block_height,
                  tx_index |-> tx_index]
    IN IF io = "open" THEN [d EXCEPT !.io_error = TRUE]
       ELSE IF io = "rename"
       THEN [d EXCEPT !.index_tmp = Append(@, entry), !.io_error = TRUE]
       ELSE [d EXCEPT !.index = Append(d.index_tmp, entry),
                      !.index_tmp = <<>>,
                      !.indexed = Append(@, entry)]

\* find_transaction: the first line of the index file with this hash
find_transaction(d, tx_hash_hex) ==
    LET hits == {i \in DOMAIN d.index : d.index[i].tx_hash = tx_hash_hex}
    IN IF hits = {} THEN <<>>
       ELSE <<d.index[CHOOSE i \in hits : \A j \in hits : i <= j]>>

storage_frame ==
    <<tree, smt_ops, state, mempool, submitted, blocks, clock, applied_log, processed_log,
      ap, node>>

\* a cycle reaches create_checkpoint with its new height
CreateCheckpoint ==
    /\ disk.height < MaxStorageHeight
    /\ \E io \in {"none", "write", "rename", "cleanup"} :
         disk' = create_checkpoint([disk EXCEPT !.height = @ + 1, !.tx_index = 0],
                                   disk.height + 1, io)
    /\ UNCHANGED storage_frame

\* the cycle indexes the next transaction of its block
IndexTransaction ==
    /\ disk.height > 0
    /\ disk.calls < MaxIndexCalls
    /\ \E tx_hash \in IndexHashes, io \in {"none", "open", "rename"} :
         disk' = index_transaction([disk EXCEPT !.calls = @ + 1, !.tx_index = @ + 1],
                                   tx_hash, disk.height, disk.tx_index, io)
    /\ UNCHANGED storage_frame

\* the node is started again on its data directory: Storage::new
Restart ==
    /\ disk.restarts < MaxRestarts
    /\ disk' = [disk EXCEPT !.last_checkpoint = 0, !.restarts = @ + 1]
    /\ UNCHANGED storage_frame

NextStorage ==
    \/ CreateCheckpoint
    \/ IndexTransaction
    \/ Restart

SpecStorage == Init /\ [][NextStorage]_vars

(* ------------------------------ properties ----------------------------- *)

\* the transactions of all emitted blocks, in order
RECURSIVE ChainTxs(_)
ChainTxs(bs) == IF bs = <<>> THEN <<>> ELSE ChainTxs(SubSeq(bs, 1, Len(bs) - 1)) \o bs[Len(bs)].txs

\* number of transactions of `txs` sent by `addr`
SentBy(txs, addr) == Cardinality({i \in DOMAIN txs : txs[i].from = addr})

\* a cycle has just emitted a block
BlockEmitted == Len(blocks') = Len(blocks) + 1

\* C1: Merkle soundness. After any sequence of update calls, for every key k
\* and optional value v, verify(root, k, v, prove(k).proof) is true exactly
\* when v is the store's current value at k, also when distinct keys are held
\* together.
C1_MerkleSoundness ==
    \A k \in SmtKeys, v \in SmtValues \cup {None} :
        SmtVerify(tree.root, k, v, SmtProve(tree, k).siblings) <=> (v = SmtGet(tree, k))

\* C2: anti-replay. Across the emitted blocks a given signed transaction is
\* applied at most once, for every choice of from and to.
C2_AntiReplay ==
    LET all == ChainTxs(blocks)
    IN \A i, j \in DOMAIN all : i # j => all[i] # all[j]

\* C3: no emitted block holds a transaction whose signature commits to an
\* identity other than tx.from.
C3_IdentityBound ==
    \A b \in DOMAIN blocks : \A i \in DOMAIN blocks[b].txs :
        blocks[b].txs[i].signature.pubkey_hash = blocks[b].txs[i].from

\* C4: conservation. For every accepted Native or LongYield transaction, in
\* the transferred token, senderBefore + recipientBefore equals
\* senderAfter + recipientAfter + fee.
TokenBalance(acct, token) ==
    CASE token = "Layer0" -> acct.layer0_balance
      [] token = "LongYield" -> acct.longyield_balance
      [] OTHER -> acct.balance

C4_Conservation ==
    \A i \in DOMAIN applied_log :
        LET r == applied_log[i]
            t == r.tx.token_type
        IN t \in {"Native", "LongYield"} =>
            TokenBalance(r.from_before, t) + TokenBalance(r.to_before, t)
                = TokenBalance(r.from_after, t) + TokenBalance(r.to_after, t) + r.tx.fee

\* C5: over a block cycle every account's nonce grows by the number of
\* transactions of the emitted block that it sent.
C5_NonceCount ==
    [][BlockEmitted =>
        \A a \in Addrs :
            GetAccount(state', a).nonce
                = GetAccount(state, a).nonce + SentBy(blocks'[Len(blocks')].txs, a)]_vars

\* C6: empty-block advancement. A cycle that accepts no transaction raises the
\* height by one and emits a state_root different from the one before it.
C6_EmptyBlockAdvances ==
    [][(BlockEmitted /\ blocks'[Len(blocks')].txs = <<>>) =>
        /\ state'.height = state.height + 1
        /\ blocks'[Len(blocks')].header.state_root # state.state_root]_vars

\* C7: unique root per height. The state roots of the emitted blocks are
\* pairwise distinct.
C7_UniqueRoots ==
    \A i, j \in DOMAIN blocks :
        i # j => blocks[i].header.state_root # blocks[j].header.state_root

\* C8: rebuilding the tree from the account table with reconstruct_smt yields
\* the state_root the continuously updated tree has.
C8_ReconstructSameRoot ==
    \A order \in Orders(DOMAIN state.accounts), newlast \in BOOLEAN :
        reconstruct_smt(state, order, IF newlast THEN Addrs ELSE {}).state_root = state.state_root

\* C9: for every address of the account table prove_account returns the
\* account and a proof that verifies the account's commitment against
\* state_root; for any other address it returns a proof of absence.
C9_ProveAccountVerifies ==
    \A addr \in Addrs :
        LET p == prove_account(state, addr)
        IN IF addr \in DOMAIN state.accounts
           THEN /\ p.account = <<state.accounts[addr]>>
                /\ SmtVerify(state.state_root, addr, AccountHash(state.accounts[addr]), p.siblings)
           ELSE /\ p.account = <<>>
                /\ SmtVerify(state.state_root, addr, None, p.siblings)

\* C10: Layer0 appreciation. An accepted Layer0 transaction of amount A takes
\* exactly A from the sender's layer0_balance and adds A + floor(A * 1000 /
\* 1000000) to the recipient's.
C10_Layer0Appreciation ==
    \A i \in DOMAIN applied_log :
        LET r == applied_log[i]
            A == r.tx.amount
        IN r.tx.token_type = "Layer0" =>
            /\ r.from_after.layer0_balance = r.from_before.layer0_balance - A
            /\ r.to_after.layer0_balance
                 = r.to_before.layer0_balance + A
                   + ((A * LAYER0_APPRECIATION_RATE) \div AppreciationDenominator)

(* ----------------------- the same, away from the defects ---------------- *)

\* soundness of the proofs of the keys that share their index with no other
\* key of the store
SharesIndex(store, k) == \E k2 \in DOMAIN store : k2 # k /\ key_index(k2) = key_index(k)

SoundWithoutCollision ==
    \A k \in SmtKeys, v \in SmtValues \cup {None} :
        ~SharesIndex(tree.store, k) =>
            (SmtVerify(tree.root, k, v, SmtProve(tree, k).siblings) <=> (v = SmtGet(tree, k)))

\* a transfer between two different accounts
IsSelfTransfer(tx) == tx.from = tx.to

ConservationOfTransfers ==
    \A i \in DOMAIN applied_log :
        LET r == applied_log[i]
            t == r.tx.token_type
        IN (t \in {"Native", "LongYield"} /\ ~IsSelfTransfer(r.tx)) =>
            TokenBalance(r.from_before, t) + TokenBalance(r.to_before, t)
                = TokenBalance(r.from_after, t) + TokenBalance(r.to_after, t) + r.tx.fee

AppreciationOfTransfers ==
    \A i \in DOMAIN applied_log :
        LET r == applied_log[i]
            A == r.tx.amount
        IN (r.tx.token_type = "Layer0" /\ ~IsSelfTransfer(r.tx)) =>
            /\ r.from_after.layer0_balance = r.from_before.layer0_balance - A
            /\ r.to_after.layer0_balance
                 = r.to_before.layer0_balance + A
                   + ((A * LAYER0_APPRECIATION_RATE) \div AppreciationDenominator)

NoReplayOfTransfers ==
    LET all == ChainTxs(blocks)
    IN \A i, j \in DOMAIN all : (i # j /\ ~IsSelfTransfer(all[i])) => all[i] # all[j]

(* ------------------------- claims C11 .. C20 --------------------------- *)

\* C11: a transaction is applied only if the sender's balance in the
\* transferred token is at least amount + fee (Native, LongYield) or at least
\* amount (Layer0), and no balance field of any account is ever negative.
C11_SufficientBalance ==
    (ap.calls > 0 /\ ap.ok) =>
        /\ LET sender == GetAccount(ap.st, ap.tx.from)
           IN IF ap.tx.token_type = "Layer0"
              THEN sender.layer0_balance >= ap.tx.amount
              ELSE TokenBalance(sender, ap.tx.token_type) >= ap.tx.amount + ap.tx.fee
        /\ \A addr \in DOMAIN ap.out.accounts :
               \A t \in TokenTypes : TokenBalance(ap.out.accounts[addr], t) >= 0

\* the balance test as apply_tx computes it holds of every applied
\* transaction, and no balance is negative
SufficientForSaturatedSpend ==
    (ap.calls > 0 /\ ap.ok) =>
        /\ LET sender == GetAccount(ap.st, ap.tx.from)
           IN IF ap.tx.token_type = "Layer0"
              THEN sender.layer0_balance >= ap.tx.amount
              ELSE TokenBalance(sender, ap.tx.token_type) >= SatAdd(ap.tx.amount, ap.tx.fee)
        /\ \A addr \in DOMAIN ap.out.accounts :
               \A t \in TokenTypes : TokenBalance(ap.out.accounts[addr], t) >= 0

\* the values a transaction carries, in the order they are signed
SignedFields(tx) == <<tx.from, tx.to, tx.amount, tx.fee, tx.signature.nonce>>

\* C12: a transaction is applied only if its signature is a signature over
\* the message recomputed from its own (from, to, amount, fee, nonce) and
\* CHAIN_ID; a transaction of which one of these fields differs from the
\* signed values is rejected.
C12_SignatureBinding ==
    ap.calls > 0 =>
        /\ ap.ok =>
              \E sk \in Secrets :
                  ap.tx.signature
                    = StarkSign(sk, TxMsg(ap.tx.from, ap.tx.to, ap.tx.amount, ap.tx.fee,
                                          ap.tx.signature.nonce), ap.tx.signature.nonce)
        /\ \A signed \in ApplyTxUniverse \ TamperedTxs :
              (ap.tx.signature = signed.signature /\ SignedFields(ap.tx) # SignedFields(signed))
                  => ~ap.ok

\* a transaction whose amount was changed after signing is rejected although
\* its nonce is the sender's and the sender could pay it
C12_Witness ==
    /\ ap.calls > 0
    /\ ~ap.ok
    /\ \E signed \in ApplyTxUniverse \ TamperedTxs :
          /\ ap.tx.signature = signed.signature
          /\ ap.tx.amount # signed.amount
    /\ GetAccount(ap.st, ap.tx.from).nonce = ap.tx.signature.nonce
    /\ GetAccount(ap.st, ap.tx.from).balance >= ap.tx.amount + ap.tx.fee

\* C13: when apply_tx rejects a transaction the account table, the SMT store
\* and root, state_root and both circulating counters (the whole State) are
\* exactly as before the call.
C13_RejectLeavesState ==
    (ap.calls > 0 /\ ~ap.ok) => ap.out = ap.st

\* a correctly signed Native transfer the sender could pay is rejected for
\* its nonce alone: 5 against a sender at nonce 0
C13_Witness ==
    /\ ap.calls > 0
    /\ ~ap.ok
    /\ StarkVerify(ap.tx.signature,
                   TxMsg(ap.tx.from, ap.tx.to, ap.tx.amount, ap.tx.fee, ap.tx.signature.nonce))
    /\ ap.tx.signature.nonce = 5
    /\ GetAccount(ap.st, ap.tx.from).nonce = 0
    /\ GetAccount(ap.st, ap.tx.from).balance >= ap.tx.amount + ap.tx.fee
    /\ ap.tx.token_type = "Native"
    /\ ap.tx.amount > 0

\* a transaction that is valid against the account of its sender: a verifying
\* signature, the sender's nonce, and a balance that covers it
ValidAgainst(sender, tx) ==
    /\ StarkVerify(tx.signature, TxMsg(tx.from, tx.to, tx.amount, tx.fee, tx.signature.nonce))
    /\ sender.nonce = tx.signature.nonce
    /\ IF tx.token_type = "Layer0"
       THEN sender.layer0_balance >= tx.amount
       ELSE TokenBalance(sender, tx.token_type) >= tx.amount + tx.fee

IterationOrders == {{}, Addrs}

\* the loop of one cycle run on the State `st` over the ordered files `order`
RunOf(st, order, last) ==
    ApplyLoop([st |-> st, applied |-> <<>>, removed |-> {}, log |-> <<>>, processed |-> {}],
              order, 1, last)

\* C16: determinism. Two executions that start from the same State and apply
\* the same ordered list of transactions end with the same tx_root and, for a
\* non-empty block, the same state_root: the iteration order of the map does
\* not influence the root.
C16_Determinism ==
    \A order \in Orders(mempool) :
        \A l1, l2 \in IterationOrders :
            LET r1 == RunOf(state, order, l1)
                r2 == RunOf(state, order, l2)
            IN /\ h_txs(r1.applied) = h_txs(r2.applied)
               /\ r1.applied # <<>> => r1.st.smt.root = r2.st.smt.root

\* the same, for the cycles that leave a store in which no two keys share an index
DeterminismWithoutCollision ==
    \A order \in Orders(mempool) :
        \A l1, l2 \in IterationOrders :
            LET r1 == RunOf(state, order, l1)
                r2 == RunOf(state, order, l2)
            IN (\A k \in DOMAIN r1.st.smt.store : ~SharesIndex(r1.st.smt.store, k)) =>
                  /\ h_txs(r1.applied) = h_txs(r2.applied)
                  /\ r1.applied # <<>> => r1.st.smt.root = r2.st.smt.root

\* C17: given the same mempool and the same prior State, every execution of
\* the cycle processes the files in the same order: whatever order the
\* directory listing returns, the applied list and tx_root are the same.
C17_StableOrder ==
    \A o1, o2 \in Orders(mempool) :
        \A last \in IterationOrders :
            LET r1 == RunOf(state, o1, last)
                r2 == RunOf(state, o2, last)
            IN /\ r1.applied = r2.applied
               /\ h_txs(r1.applied) = h_txs(r2.applied)

\* the tree left by inserting the entries of `store` into an empty tree in
\* the order `order`
RECURSIVE InsertAll(_, _, _, _, _)
InsertAll(store, order, i, t, last) ==
    IF i > Len(order) THEN t
    ELSE InsertAll(store, order, i + 1, SmtUpdate(t, order[i], store[order[i]], last), last)

\* C18: the root is a function of the store's contents only. The root of the
\* tree equals the root of every tree built from the same entries in any
\* insertion order under any iteration order of the map, and an update that
\* changes the contents changes the root.
C18_RootOfContents ==
    /\ \A order \in Orders(DOMAIN tree.store) :
          \A last \in {{}, SmtKeys} :
              InsertAll(tree.store, order, 1, SmtNew, last).root = tree.root
    /\ \A k \in SmtKeys, v \in SmtValues \cup {None} :
          \A last \in {{}, SmtKeys} :
              LET t2 == SmtUpdate(tree, k, v, last)
              IN t2.store # tree.store => t2.root # tree.root

\* the same, for the stores in which no two keys share an index
RootOfContentsWithoutCollision ==
    /\ (\A k \in DOMAIN tree.store : ~SharesIndex(tree.store, k)) =>
          \A order \in Orders(DOMAIN tree.store) :
              \A last \in {{}, SmtKeys} :
                  InsertAll(tree.store, order, 1, SmtNew, last).root = tree.root
    /\ \A k \in SmtKeys, v \in SmtValues \cup {None} :
          \A last \in {{}, SmtKeys} :
              LET t2 == SmtUpdate(tree, k, v, last)
              IN (/\ \A k2 \in DOMAIN tree.store : ~SharesIndex(tree.store, k2)
                  /\ \A k2 \in DOMAIN t2.store : ~SharesIndex(t2.store, k2)
                  /\ t2.store # tree.store)
                    => t2.root # tree.root

\* the hashes a changed sibling is replaced with: empty-subtree hashes, leaf
\* hashes, a raw value, and every sibling of every proof of the tree
TamperHashes ==
    {zero_hashes(i) : i \in 0..TreeDepth}
    \cup {LeafHash(k, v) : k \in SmtKeys, v \in SmtValues}
    \cup SmtValues
    \cup {SmtProve(tree, k).siblings[l] : k \in SmtKeys, l \in 1..TreeDepth}

\* C19: for every key k, the proof returned by prove(k) with any one sibling
\* replaced by another hash, at any level, does not verify against the root
\* for k and the current value of k.
C19_TamperedProofRejected ==
    \A k \in SmtKeys, l \in 1..TreeDepth, x \in TamperHashes :
        LET p == SmtProve(tree, k)
        IN x # p.siblings[l] =>
              ~SmtVerify(tree.root, k, p.value, [p.siblings EXCEPT ![l] = x])

\* a stored key whose proof verifies, in a tree where its sibling at the
\* lowest level is a leaf of another key, and a changed sibling at the top level
C19_Witness ==
    \E k \in DOMAIN tree.store :
        LET p == SmtProve(tree, k)
        IN /\ SmtVerify(tree.root, k, p.value, p.siblings)
           /\ p.siblings[1] # zero_hashes(0)
           /\ ~SmtVerify(tree.root, k, p.value, [p.siblings EXCEPT ![TreeDepth] = p.siblings[1]])

\* proofs whose sibling list has not TreeDepth entries: the empty proof, the
\* prefixes of the proof of `key`, and that proof with one more sibling
WrongLengthProofs(key) ==
    LET p == SmtProve(tree, key).siblings
    IN {SubSeq(p, 1, n) : n \in 0..(TreeDepth - 1)}
       \cup {p \o <<x>> : x \in {zero_hashes(TreeDepth), zero_hashes(0)}}

\* the hash that (key, value) folds to along the siblings `q`
FoldOf(key, value, q) ==
    VerifyFold(IF value # None THEN LeafHash(key, value) ELSE zero_hashes(0),
               key_index(key), q, 1)

\* C20: verify returns false for every proof whose sibling list is not of
\* the full length (empty, shorter, longer), for every key and optional
\* value, against the tree's root and against the hash the proof folds to.
C20_WrongLengthRejected ==
    \A k \in SmtKeys, v \in SmtValues \cup {None} :
        \A q \in WrongLengthProofs(k) :
            \A root \in {tree.root, FoldOf(k, v, q)} \cup {zero_hashes(i) : i \in 0..TreeDepth} :
                ~SmtVerify(root, k, v, q)

\* a stored key whose proof verifies and is rejected with one more sibling,
\* against the root that the longer proof folds to
C20_Witness ==
    \E k \in DOMAIN tree.store :
        LET p == SmtProve(tree, k)
            q == p.siblings \o <<zero_hashes(TreeDepth)>>
        IN /\ SmtVerify(tree.root, k, p.value, p.siblings)
           /\ Len(q) = TreeDepth + 1
           /\ ~SmtVerify(FoldOf(k, p.value, q), k, p.value, q)


(* --------------------------- claims C21 .. C30 -------------------------- *)

C22_StorageOutsideLock ==
    (node.pc \in StorageSteps \/ node.pc = "publish") => node.lock = "free"

\* the half of C22 that is about the network: the block is published after
\* make_block_once has returned
PublishOutsideLock == node.pc = "publish" => node.lock = "free"

\* C23: a reader (status, balance, proveAccount) that waits while the cycle
\* holds the state lock can still return, whether or not the cycle goes on:
\* some step of the reader that ends its wait is enabled.  (The wait of a
\* reader is ended by ReaderReturn alone: `lock()` blocks the thread, and the
\* timeout of status is around a future that never yields, so it never
\* fires.)
C23_ReaderReturnsWhileCycleStalls ==
    node.reader = "waiting" => ENABLED ReaderReturn

\* a reader's wait ends once the lock is free
ReaderReturnsWhenLockFree ==
    (node.reader = "waiting" /\ node.lock = "free") => ENABLED ReaderReturn

\* C24: a Storage call, failed or not, leaves the State (height, accounts,
\* tree, state_root) and the block as the cycle committed them and is
\* followed by the next step of the cycle; the cycle then returns its block,
\* whose header carries the height and the state root of the State.
C24_StorageFailureKeepsState ==
    [][/\ (node.pc \in StorageSteps /\ node'.pc # node.pc)
           => /\ state' = state
              /\ node'.block = node.block
              /\ node'.pc = NextStep(node.pc)
       /\ (node.pc = "return" /\ node'.pc # node.pc)
           => /\ state' = state
              /\ blocks' = Append(blocks, node.block[1])
              /\ node.block[1].header.height = state.height
              /\ node.block[1].header.state_root = state.state_root
              /\ state.state_root = state.smt.root
              /\ state.last_block_hash = h_block_header(node.block[1].header)]_vars

\* a cycle in which a Storage call failed has returned its block
C24_Witness ==
    /\ node.pc = "publish"
    /\ node.failed
    /\ Len(blocks) > 0
    /\ blocks[Len(blocks)].txs # <<>>
    /\ blocks[Len(blocks)].header.height = state.height

\* C25: a file leaves mempool_dir only in the turn of the loop that applied
\* its transaction; a turn that rejects a transaction removes nothing, and
\* the files that do not parse stay.
C25_OnlyAppliedRemoved ==
    [][/\ \A e \in mempool \ mempool' :
            /\ node.pc = "apply"
            /\ node.i <= Len(node.txs)
            /\ e = node.txs[node.i]
            /\ apply_tx(state, e.tx, {}).ok
            /\ node'.applied = Append(node.applied, e.tx)
       /\ (node.pc = "apply" /\ node'.i = node.i + 1 /\ node'.applied = node.applied)
            => mempool' = mempool
       /\ node.junk \subseteq node'.junk]_vars

\* a cycle that listed two files among one that does not parse has applied
\* one and rejected the other, which is still there
C25_Witness ==
    /\ node.pc = "publish"
    /\ Len(node.txs) = 2
    /\ Len(node.applied) = 1
    /\ node.junk # {}
    /\ \E i \in 1..2 : node.txs[i] \in mempool /\ node.txs[i].tx.signature.nonce = 5

\* C26: the block of a cycle holds the transactions apply_tx accepted in that
\* cycle, in the order they were processed and once per accepted file; its
\* tx_root is h_txs of that list, its height is the State's new height, and
\* its state_root is the root of the tree after all updates of the cycle
\* (the empty-block entry included) and is the State's state_root.
C26_BlockMatchesCycle ==
    blocks # <<>> =>
        LET b == blocks[Len(blocks)]
        IN /\ b.txs = [i \in 1..Len(applied_log) |-> applied_log[i].tx]
           /\ Len(b.txs) = Cardinality({p \in processed_log : p.ok})
           /\ {b.txs[i] : i \in 1..Len(b.txs)} = {p.tx : p \in {q \in processed_log : q.ok}}
           /\ b.header.tx_root = h_txs(b.txs)
           /\ b.header.height = state.height
           /\ b.header.state_root = state.smt.root
           /\ b.header.state_root = state.state_root

\* an empty block followed by a block of one transaction among two listed
C26_Witness ==
    /\ Len(blocks) = 2
    /\ blocks[1].txs = <<>>
    /\ Len(blocks[2].txs) = 1
    /\ Cardinality(processed_log) = 2

\* C27: the production loop goes on for ever: whatever the mempool holds and
\* whichever Storage or network call fails, make_block_once does not panic
\* and the loop does not end, so that every height is passed in the end.
C27_LoopNeverExits == node.pc # "exited"

\* short of a panic the cycle is not held up: the one step of it that can
\* wait is the lock, and a reader holds the lock for the length of its read
\* only
CycleNeverBlocked == node.pc = "listed" => ENABLED LockState

NoLongYieldIssued ==
    /\ \A a \in DOMAIN ap.out.accounts : ap.out.accounts[a].longyield_balance = 0
    /\ ap.out.longyield_circulating = 0

\* the sum of the Native balances of the account table
RECURSIVE NativeSum(_, _)
NativeSum(accounts, addrs) ==
    IF addrs = {} THEN 0
    ELSE LET a == CHOOSE x \in addrs : TRUE
         IN accounts[a].balance + NativeSum(accounts, addrs \ {a})

\* the sum of the fees of the Native transactions of `txs`
RECURSIVE NativeFees(_)
NativeFees(txs) ==
    IF txs = <<>> THEN 0
    ELSE (IF txs[1].token_type = "Native" THEN txs[1].fee ELSE 0) + NativeFees(Tail(txs))

\* C29: no Native value is created: in every reachable state the Native
\* balances add up to the genesis total less the fees of the Native
\* transactions applied so far.
C29_NativeSupply ==
    NativeSum(state.accounts, DOMAIN state.accounts)
        = GenesisBalance - NativeFees(ChainTxs(blocks))

\* the same where no applied transaction has the sender as its recipient
NativeSupplyWithoutSelfTransfer ==
    (\A i \in DOMAIN ChainTxs(blocks) : ~IsSelfTransfer(ChainTxs(blocks)[i]))
        => NativeSum(state.accounts, DOMAIN state.accounts)
             = GenesisBalance - NativeFees(ChainTxs(blocks))

\* C30: the AccountProof that proveAccount returns for an address, handed
\* unchanged to verifyProof, is answered ok = true, whether the address is of
\* an account changed by transactions, of an untouched genesis account, or of
\* no account.
C30_ProofRoundTrip ==
    \A addr \in Addrs : v1_verify_proof(v1_prove_account(state, addr))

\* the round trip of the genesis account as long as no transaction was applied
GenesisAccountRoundTrip ==
    ChainTxs(blocks) = <<>> => v1_verify_proof(v1_prove_account(state, AddrA))

\* the round trip fails for every address without an account
AbsentAccountRoundTripFails ==
    \A addr \in Addrs \ DOMAIN state.accounts :
        ~v1_verify_proof(v1_prove_account(state, addr))

\* the decimal string of a balance parses back to the balance
DecimalRoundTrip ==
    \A a \in DOMAIN state.accounts :
        ParseU128(ToDecimal(state.accounts[a].balance)) = state.accounts[a].balance

\* the round trip fails for every account a transaction has written
WrittenAccountRoundTripFails ==
    \A addr \in DOMAIN state.accounts :
        (addr \in DOMAIN state.smt.store
            /\ state.smt.store[addr] = AccountHash(state.accounts[addr]))
        => ~v1_verify_proof(v1_prove_account(state, addr))

(* --------------------------- claims C31 .. C39 -------------------------- *)

\* the pending transaction of the scenario, to the recipient `y`
ScenarioTx(y) == MakeTx(1, AddrA, y, 1000, 10, 0, "Native")

\* the first cycle of the node found this one file in the mempool
ScenarioRan(y) ==
    /\ Len(blocks) = 1
    /\ \E p \in processed_log : processed_log = {p} /\ p.tx = ScenarioTx(y)

C32_ReconstructIdempotent ==
    \A order \in Orders(DOMAIN state.accounts) :
        \A l1, l2 \in IterationOrders :
            LET once == reconstruct_smt(state, order, l1)
                twice == reconstruct_smt(once, order, l2)
            IN /\ twice.smt.store = once.smt.store
               /\ twice.state_root = once.state_root

\* the same for the account tables in which no two addresses share an index
IdempotentWithoutCollision ==
    (\A a \in DOMAIN state.accounts :
        \A b \in DOMAIN state.accounts : a # b => key_index(a) # key_index(b))
    => \A order \in Orders(DOMAIN state.accounts) :
        \A l1, l2 \in IterationOrders :
            LET once == reconstruct_smt(state, order, l1)
                twice == reconstruct_smt(once, order, l2)
            IN /\ twice.smt.store = once.smt.store
               /\ twice.state_root = once.state_root

\* the contents of the tree are the same after the second call in any case
ReconstructSameContents ==
    \A order \in Orders(DOMAIN state.accounts) :
        \A l1, l2 \in IterationOrders :
            reconstruct_smt(reconstruct_smt(state, order, l1), order, l2).smt.store
                = reconstruct_smt(state, order, l1).smt.store

\* C33: accounts are never deleted: an address of the account table is in
\* the table of every later state, and an address enters the table only as
\* the sender or the recipient of a transaction applied in that step (the
\* table of the first state being that of genesis).
C33_AccountsNeverDeleted ==
    [][/\ DOMAIN state.accounts \subseteq DOMAIN state'.accounts
       /\ \A a \in DOMAIN state'.accounts \ DOMAIN state.accounts :
            /\ BlockEmitted
            /\ \E i \in DOMAIN blocks'[Len(blocks')].txs :
                 a \in {blocks'[Len(blocks')].txs[i].from, blocks'[Len(blocks')].txs[i].to}]_vars

\* the table holds the genesis account and two addresses that entered it as
\* recipients
C33_Witness ==
    /\ DOMAIN state.accounts = {AddrA, AddrB, AddrC}
    /\ state.height = 2

\* the digest `d` is the hash of an input that begins with the byte `tag`
HashOfTagged(d, tag) == Len(d) >= 3 /\ d[1] = HOpen /\ d[2] = tag

\* C34: every inner-node hash is H(0x01 || left || right): the root that
\* recompute_root leaves, the value verify folds a proof of prove to, and the
\* zero hashes above level 0, with zero[0] = H(emptyLeaf) and
\* zero[i] = H(0x01 || zero[i-1] || zero[i-1]); every leaf hash is
\* H(0x00 || key || value).
C34_HashFormat ==
    /\ zero_hashes(0) = h(<<0>>)
    /\ \A i \in 1..TreeDepth :
         zero_hashes(i) = h(<<1>> \o zero_hashes(i - 1) \o zero_hashes(i - 1))
    /\ HashOfTagged(tree.root, 1)
    /\ \A k \in DOMAIN tree.store :
         /\ HashOfTagged(LeafHash(k, tree.store[k]), 0)
         /\ HashOfTagged(VerifyFold(LeafHash(k, tree.store[k]), key_index(k),
                                    SmtProve(tree, k).siblings, 1), 1)

\* the leaf half of C34: every leaf hash is H(0x00 || key || value), and
\* zero[0] is the hash of the one byte 0x00
LeafHashTagged ==
    /\ zero_hashes(0) = h(<<0>>)
    /\ \A k \in DOMAIN tree.store :
         LeafHash(k, tree.store[k]) = h(<<0>> \o k \o tree.store[k])

\* what the code computes for an inner node: the hash of left || right, an
\* input that begins with the first byte of the left child
InnerHashUntagged ==
    /\ \A i \in 1..TreeDepth : zero_hashes(i) = h(zero_hashes(i - 1) \o zero_hashes(i - 1))
    /\ ~HashOfTagged(tree.root, 1)

\* C35: an accepted Native or LongYield transaction whose recipient is its
\* sender leaves the account with its balance in that token lowered by the
\* fee and its nonce raised by one.
C35_SelfTransfer ==
    (ap.calls > 0 /\ ap.ok /\ ap.tx.from = ap.tx.to
       /\ ap.tx.token_type \in {"Native", "LongYield"}) =>
        /\ TokenBalance(GetAccount(ap.out, ap.tx.from), ap.tx.token_type)
             = TokenBalance(GetAccount(ap.st, ap.tx.from), ap.tx.token_type) - ap.tx.fee
        /\ GetAccount(ap.out, ap.tx.from).nonce = GetAccount(ap.st, ap.tx.from).nonce + 1

\* what apply_tx leaves instead: the recipient's copy, written last, with the
\* amount added and the nonce as it was
SelfTransferKeepsRecipientCopy ==
    (ap.calls > 0 /\ ap.ok /\ ap.tx.from = ap.tx.to
       /\ ap.tx.token_type \in {"Native", "LongYield"}) =>
        /\ TokenBalance(GetAccount(ap.out, ap.tx.from), ap.tx.token_type)
             = SatAdd(TokenBalance(GetAccount(ap.st, ap.tx.from), ap.tx.token_type),
                      ap.tx.amount)
        /\ GetAccount(ap.out, ap.tx.from).nonce = GetAccount(ap.st, ap.tx.from).nonce

\* the sum of the Layer0 balances of the account table
RECURSIVE Layer0Sum(_, _)
Layer0Sum(accounts, addrs) ==
    IF addrs = {} THEN 0
    ELSE LET a == CHOOSE x \in addrs : TRUE
         IN accounts[a].layer0_balance + Layer0Sum(accounts, addrs \ {a})

\* C36: in every state reachable from genesis layer0_circulating is the sum
\* of the Layer0 balances of all accounts.
C36_Layer0Circulating ==
    state.layer0_circulating = Layer0Sum(state.accounts, DOMAIN state.accounts)

\* layer0_circulating is written once, by new_with_genesis, with the faucet
\* amount of one account
Layer0CirculatingNeverWritten ==
    /\ state.layer0_circulating = Layer0FaucetBalance
    /\ ap.st.layer0_circulating = Layer0FaucetBalance
    /\ ap.out.layer0_circulating = Layer0FaucetBalance

\* the sum and the counter agree as long as no Layer0 transaction was applied
Layer0CirculatingBeforeTransfers ==
    (\A i \in DOMAIN ChainTxs(blocks) : ChainTxs(blocks)[i].token_type # "Layer0")
        => state.layer0_circulating = Layer0Sum(state.accounts, DOMAIN state.accounts)

\* C37: after index_transaction was called for t1..tn without an I/O error,
\* find_transaction of the hex hash of every ti returns an entry with the
\* block height and the index recorded for ti.
C37_IndexRoundTrip ==
    ~disk.io_error =>
        \A i \in DOMAIN disk.indexed :
            LET found == find_transaction(disk, disk.indexed[i].tx_hash)
            IN /\ found # <<>>
               /\ \E j \in DOMAIN disk.indexed :
                    /\ disk.indexed[j].tx_hash = disk.indexed[i].tx_hash
                    /\ found[1].block_height = disk.indexed[j].block_height
                    /\ found[1].tx_index = disk.indexed[j].tx_index

\* what the index file holds after a call without error: the entry of that
\* call and no other, which find_transaction returns
IndexHoldsLastEntryOnly ==
    (~disk.io_error /\ disk.indexed # <<>>) =>
        /\ disk.index = <<disk.indexed[Len(disk.indexed)]>>
        /\ find_transaction(disk, disk.indexed[Len(disk.indexed)].tx_hash)
             = <<disk.indexed[Len(disk.indexed)]>>

\* the heights of the checkpoint files of the directory
CheckpointHeights == {HeightOfName(f) : f \in disk.checkpoints}

\* C38: the heights of any two checkpoints written by create_checkpoint are
\* at least checkpoint_interval apart; after every call the directory holds
\* at most max_checkpoints checkpoint files, and these are the written ones
\* of the greatest heights (as long as no call met an I/O error).
C38_CheckpointsRateLimited ==
    ~disk.io_error =>
        /\ \A a \in disk.written : \A b \in disk.written :
             a < b => b - a >= checkpoint_interval
        /\ Cardinality(disk.checkpoints) <= max_checkpoints
        /\ CheckpointHeights \subseteq disk.written
        /\ \A w \in disk.written \ CheckpointHeights : \A c \in CheckpointHeights : w < c

\* the same within one run of the node
CheckpointsWithinOneRun ==
    (disk.restarts = 0 /\ ~disk.io_error) =>
        /\ \A a \in disk.written : \A b \in disk.written :
             a < b => b - a >= checkpoint_interval
        /\ Cardinality(disk.checkpoints) <= max_checkpoints
        /\ CheckpointHeights \subseteq disk.written
        /\ \A w \in disk.written \ CheckpointHeights : \A c \in CheckpointHeights : w < c

\* the bound on the directory holds across restarts too, short of I/O errors
CheckpointsBounded ==
    ~disk.io_error =>
        /\ Cardinality(disk.checkpoints) <= max_checkpoints
        /\ \A w \in disk.written \ CheckpointHeights : \A c \in CheckpointHeights : w < c

\* C39: at every height calculate_layer0_reward returns, without a panic, and
\* its base component is LAYER0_BLOCK_REWARD halved floor(height /
\* LAYER0_HALVING_BLOCKS) times; the base components of successive blocks
\* never increase.
C39_BaseRewardHalves ==
    /\ node.pc # "exited"
    /\ \A k \in DOMAIN node.rewards :
         node.rewards[k].base_reward =
             LAYER0_BLOCK_REWARD \div 2^(node.rewards[k].height \div LAYER0_HALVING_BLOCKS)
    /\ \A k \in DOMAIN node.rewards : \A l \in DOMAIN node.rewards :
         node.rewards[k].height < node.rewards[l].height
             => node.rewards[l].base_reward <= node.rewards[k].base_reward

\* the same while the number of halvings is below the width of the integer
BaseRewardHalvesBelowWidth ==
    state.height <= LastSafeHeight =>
        /\ node.pc # "exited"
        /\ node.pc = "save_block" => node.rewards # <<>>
        /\ \A k \in DOMAIN node.rewards :
             node.rewards[k].base_reward =
                 LAYER0_BLOCK_REWARD \div 2^(node.rewards[k].height \div LAYER0_HALVING_BLOCKS)
        /\ \A k \in DOMAIN node.rewards : \A l \in DOMAIN node.rewards :
             node.rewards[k].height < node.rewards[l].height
                 => node.rewards[l].base_reward <= node.rewards[k].base_reward

\* a build without overflow checks pays the full reward again at the first
\* height whose number of halvings reaches the width
FullRewardAtWidth ==
    \A k \in DOMAIN node.rewards :
        node.rewards[k].height = LastSafeHeight + 1
            => node.rewards[k].base_reward = LAYER0_BLOCK_REWARD

====
